---- MODULE Spec2Model ----
(***************************************************************************)
(* A model of the kata functions of the repository:                        *)
(*   findStringInSnakingPuzzle, getPermutations, UrlShortener, wrapText    *)
(*   (src/task/11-katas-2-tasks.js) and canDominoesMakeRow                  *)
(*   (src/task/10-katas-1-tasks.js).                                        *)
(* Each function has its own specification over its own variables; the     *)
(* variables of the other functions stay idle.  JavaScript strings and     *)
(* arrays are sequences of one-character strings; the code's 0-based       *)
(* indices are kept and shifted by one where a sequence is read.           *)
(***************************************************************************)
EXTENDS Integers, Sequences, FiniteSets, TLC

VARIABLES
    \* findStringInSnakingPuzzle: the arguments, the closure's index and visited,
    \* the call stack of canFindStartedFrom, the value a call returned, the
    \* loop counters i and j, where the call stands, and what it returned
    puzzle, searchStr, index, visited, stack, ret, oi, oj, phase, result,
    \* getPermutations: the argument, the objects on the heap, the address of
    \* the working array, the output array, the call stack of generate, the
    \* counter of the yield loop, what the consumer received, where the call stands
    chars, heap, arr, output, pstack, yi, yielded, pphase,
    \* canDominoesMakeRow: the argument, the copy, the two open ends, where
    \* the call stands, and what it returned
    dominoes, copy, domino, dphase, dresult,
    \* UrlShortener: the url, encode's codes and code arrays and its counter,
    \* the short link, decode's counter and result array, where the round trip stands
    url, codes, code, ui, shortLink, di, decoded, uphase,
    \* wrapText: the argument text, the rest of the text, the columns, the
    \* lines yielded, where the call stands
    text0, text, columns, lines, wphase,
    \* getMostProfitFromStockQuotes: the argument, the values array, the loop
    \* counters i and j, where the call stands, and what it returned
    quotes, values, si, sj, sphase, sresult

snakeVars == <<puzzle, searchStr, index, visited, stack, ret, oi, oj, phase, result>>
permVars == <<chars, heap, arr, output, pstack, yi, yielded, pphase>>

domVars == <<dominoes, copy, domino, dphase, dresult>>
urlVars == <<url, codes, code, ui, shortLink, di, decoded, uphase>>
wrapVars == <<text0, text, columns, lines, wphase>>

stockVars == <<quotes, values, si, sj, sphase, sresult>>

vars == <<snakeVars, permVars, domVars, urlVars, wrapVars, stockVars>>

\* no call of findStringInSnakingPuzzle is under way
SnakeIdle ==
    /\ puzzle = <<>> /\ searchStr = <<>> /\ index = 0 /\ visited = <<>>
    /\ stack = <<>> /\ ret = "none" /\ oi = 0 /\ oj = 0
    /\ phase = "idle" /\ result = "none"

\* no call of getPermutations is under way
PermIdle ==
    /\ chars = <<>> /\ heap = <<>> /\ arr = 0 /\ output = <<>>
    /\ pstack = <<>> /\ yi = 0 /\ yielded = <<>> /\ pphase = "idle"

\* no call of canDominoesMakeRow is under way
DominoIdle ==
    /\ dominoes = <<>> /\ copy = <<>> /\ domino = <<>>
    /\ dphase = "idle" /\ dresult = "none"

\* no UrlShortener call is under way
UrlIdle ==
    /\ url = <<>> /\ codes = <<>> /\ code = <<>> /\ ui = 0 /\ shortLink = <<>>
    /\ di = 0 /\ decoded = <<>> /\ uphase = "idle"

\* no call of wrapText is under way
WrapIdle ==
    /\ text0 = <<>> /\ text = <<>> /\ columns = 0 /\ lines = <<>> /\ wphase = "idle"

\* no call of getMostProfitFromStockQuotes is under way
StockIdle ==
    /\ quotes = <<>> /\ values = <<>> /\ si = 0 /\ sj = 0
    /\ sphase = "idle" /\ sresult = 0

notSnake == <<permVars, domVars, urlVars, wrapVars, stockVars>>
notPerm == <<snakeVars, domVars, urlVars, wrapVars, stockVars>>
notDomino == <<snakeVars, permVars, urlVars, wrapVars, stockVars>>
notUrl == <<snakeVars, permVars, domVars, wrapVars, stockVars>>
notWrap == <<snakeVars, permVars, domVars, urlVars, stockVars>>
notStock == <<snakeVars, permVars, domVars, urlVars, wrapVars>>

(***************************************************************************)
(* JavaScript values                                                       *)
(***************************************************************************)
\* the value of an out-of-range index read (s[k] beyond the string)
Undefined == "undefined"

\* s[k] / s.charAt-like indexed read of a string or array, k 0-based
CharAt(s, k) == IF k \in 0..(Len(s) - 1) THEN s[k + 1] ELSE Undefined

\* all sequences over S of length 0..n
SeqUpTo(S, n) == UNION {[1..k -> S] : k \in 0..n}

(***************************************************************************)
(* findStringInSnakingPuzzle                                               *)
(***************************************************************************)
MaxRows == 2
MaxCells == 4
MaxTarget == 3

SnakeAlphabet == {"a", "b"}

DocPuzzle ==
    << <<"A","N","G","U","L","A","R">>,
       <<"R","E","D","N","C","A","E">>,
       <<"R","F","I","D","T","C","L">>,
       <<"A","G","N","E","G","S","A">>,
       <<"Y","T","I","R","T","S","P">> >>

DocWords ==
    { <<"A","N","G","U","L","A","R">>, <<"R","E","A","C","T">>,
      <<"U","N","D","E","F","I","N","E","D">>, <<"R","E","D">>,
      <<"S","T","R","I","N","G">>, <<"C","L","A","S","S">>,
      <<"A","R","R","A","Y">>, <<"F","U","N","C","T","I","O","N">>,
      <<"N","U","L","L">> }

\* puzzle[i] is truthy: a row of the grid that is not the empty string
TruthyRow(p, i) == i \in 0..(Len(p) - 1) /\ p[i + 1] # <<>>

\* `puzzle[i] && puzzle[i][j] === searchStr[index]`: an undefined row and an
\* empty row are falsy; two undefined reads are strictly equal
Matches(p, s, i, j, idx) ==
    /\ TruthyRow(p, i)
    /\ CharAt(p[i + 1], j) = CharAt(s, idx)

\* new Array(puzzle.length).fill(0).map((v, i) => new Array(puzzle[i].length).fill(false))
NewVisited(p) ==
    [i \in 0..(Len(p) - 1) |-> [j \in 0..(Len(p[i + 1]) - 1) |-> FALSE]]

\* visited[r] is an array (truthy) exactly for the rows that were allocated
HasRow(v, r) == r \in DOMAIN v

\* truthiness of visited[r][c] for an allocated row r: an index outside the
\* row reads undefined, which is falsy
MarkedNever(v, r, c) == FALSE
Marked(v, r, c) == c \in DOMAIN v[r] /\ v[r][c]

\* visited[i][j] = value (an index outside the row would add an element)
SetVisitedSticky(v, i, j, value) ==
    [v EXCEPT ![i] = IF j \in DOMAIN @ THEN [@ EXCEPT ![j] = TRUE]
                     ELSE (j :> TRUE) @@ @]
SetVisited(v, i, j, value) ==
    [v EXCEPT ![i] = IF j \in DOMAIN @ THEN [@ EXCEPT ![j] = value]
                     ELSE (j :> value) @@ @]

\* the four neighbour tests of canFindStartedFrom, in source order
DeltaI(d) == CASE d = "up" -> -1 [] d = "down" -> 1 [] OTHER -> 0
DeltaJ(d) == CASE d = "left" -> -1 [] d = "right" -> 1 [] OTHER -> 0
NextPc(d) ==
    CASE d = "up" -> "down" [] d = "down" -> "left"
      [] d = "left" -> "right" [] OTHER -> "unwind"

\* the tests of the rows above and below start with `visited[i -+ 1] &&`;
\* the tests of the left and right cells read visited[i] directly
GuardedNever(d) == FALSE
RowGuarded(d) == d \in {"up", "down"}

Top == stack[Len(stack)]
Pop == SubSeq(stack, 1, Len(stack) - 1)
SetTopPc(pc) == [stack EXCEPT ![Len(stack)].pc = pc]
Frame(i, j) == [i |-> i, j |-> j, pc |-> "entry"]

\* the number of cells of a grid
RECURSIVE CellCount(_)
CellCount(p) == IF p = <<>> THEN 0 ELSE Len(Head(p)) + CellCount(Tail(p))

\* the grids of at most MaxRows rows and MaxCells cells: rows of any lengths,
\* empty rows and the grid of zero rows included
SnakeGrids ==
    {p \in SeqUpTo(SeqUpTo(SnakeAlphabet, MaxCells), MaxRows) : CellCount(p) <= MaxCells}

\* the targets of at most MaxTarget characters; the search only compares
\* characters, so exchanging the two letters everywhere changes no result and
\* the targets that start with the second letter are left out
SnakeTargets == {s \in SeqUpTo(SnakeAlphabet, MaxTarget) : s = <<>> \/ s[1] = "a"}

SnakeInit ==
    /\ \/ puzzle \in SnakeGrids
          /\ searchStr \in SnakeTargets
       \/ puzzle = DocPuzzle /\ searchStr \in DocWords
    /\ index = 0
    /\ visited = NewVisited(puzzle)
    /\ stack = <<>>
    /\ ret = "none"
    /\ oi = 0
    /\ oj = 0
    /\ phase = "loop"
    /\ result = "none"
    /\ PermIdle /\ DominoIdle /\ UrlIdle /\ WrapIdle /\ StockIdle

\* for (let i ...) loop test fails: return false
LoopExit ==
    /\ phase = "loop"
    /\ oi >= Len(puzzle)
    /\ phase' = "done"
    /\ result' = "false"
    /\ UNCHANGED <<puzzle, searchStr, index, visited, stack, ret, oi, oj>>
    /\ UNCHANGED notSnake

\* for (let j ...) loop test fails: next row
LoopNextRow ==
    /\ phase = "loop"
    /\ oi < Len(puzzle)
    /\ oj >= Len(puzzle[oi + 1])
    /\ oi' = oi + 1
    /\ oj' = 0
    /\ UNCHANGED <<puzzle, searchStr, index, visited, stack, ret, phase, result>>
    /\ UNCHANGED notSnake

\* if (canFindStartedFrom(i, j)): the call
LoopCall ==
    /\ phase = "loop"
    /\ oi < Len(puzzle)
    /\ oj < Len(puzzle[oi + 1])
    /\ stack' = <<Frame(oi, oj)>>
    /\ ret' = "none"
    /\ phase' = "call"
    /\ UNCHANGED <<puzzle, searchStr, index, visited, oi, oj, result>>
    /\ UNCHANGED notSnake

\* if (canFindStartedFrom(i, j)) return true; else j++
LoopReturn ==
    /\ phase = "call"
    /\ stack = <<>>
    /\ ret # "none"
    /\ IF ret = "true"
       THEN /\ phase' = "done"
            /\ result' = "true"
            /\ UNCHANGED oj
       ELSE /\ phase' = "loop"
            /\ oj' = oj + 1
            /\ UNCHANGED result
    /\ ret' = "none"
    /\ UNCHANGED <<puzzle, searchStr, index, visited, stack, oi>>
    /\ UNCHANGED notSnake

\* entry of canFindStartedFrom: the match test, index++, the mark, and the
\* test for the end of the word
Enter ==
    /\ phase = "call"
    /\ stack # <<>>
    /\ Top.pc = "entry"
    /\ IF Matches(puzzle, searchStr, Top.i, Top.j, index)
       THEN IF ~HasRow(visited, Top.i)
            THEN \* visited[i][j] = true on a missing row: TypeError
                 /\ phase' = "fault"
                 /\ index' = index + 1
                 /\ UNCHANGED <<visited, stack, ret>>
            ELSE /\ index' = index + 1
                 /\ visited' = SetVisited(visited, Top.i, Top.j, TRUE)
                 /\ phase' = phase
                 /\ IF index + 1 = Len(searchStr)
                    THEN stack' = Pop /\ ret' = "true"
                    ELSE stack' = SetTopPc("up") /\ ret' = "none"
       ELSE /\ stack' = Pop
            /\ ret' = "false"
            /\ UNCHANGED <<index, visited, phase>>
    /\ UNCHANGED <<puzzle, searchStr, oi, oj, result>>
    /\ UNCHANGED notSnake

\* one neighbour test: `[visited[r] &&] !visited[r][c] && canFindStartedFrom(r, c)`
\* up to the call
TryDir ==
    /\ phase = "call"
    /\ stack # <<>>
    /\ Top.pc \in {"up", "down", "left", "right"}
    /\ LET d == Top.pc
           r == Top.i + DeltaI(d)
           c == Top.j + DeltaJ(d)
       IN  IF RowGuarded(d) /\ ~HasRow(visited, r)
           THEN /\ stack' = SetTopPc(NextPc(d))
                /\ UNCHANGED phase
           ELSE IF ~HasRow(visited, r)
           THEN \* visited[r][c] on a missing row: TypeError
                /\ phase' = "fault"
                /\ UNCHANGED stack
           ELSE IF Marked(visited, r, c)
           THEN /\ stack' = SetTopPc(NextPc(d))
                /\ UNCHANGED phase
           ELSE /\ stack' = Append(SetTopPc(d \o "Ret"), Frame(r, c))
                /\ UNCHANGED phase
    /\ ret' = "none"
    /\ UNCHANGED <<puzzle, searchStr, index, visited, oi, oj, result>>
    /\ UNCHANGED notSnake

\* the recursive call returned: `return true` or go on to the next test
AfterDir ==
    /\ phase = "call"
    /\ stack # <<>>
    /\ Top.pc \in {"upRet", "downRet", "leftRet", "rightRet"}
    /\ ret # "none"
    /\ IF ret = "true"
       THEN stack' = Pop /\ ret' = "true"
       ELSE /\ stack' = SetTopPc(NextPc(SubSeq(Top.pc, 1, Len(Top.pc) - 3)))
            /\ ret' = "none"
    /\ UNCHANGED <<puzzle, searchStr, index, visited, oi, oj, phase, result>>
    /\ UNCHANGED notSnake

\* index--; visited[i][j] = false; return false
Unwind ==
    /\ phase = "call"
    /\ stack # <<>>
    /\ Top.pc = "unwind"
    /\ index' = index - 1
    /\ visited' = SetVisited(visited, Top.i, Top.j, FALSE)
    /\ stack' = Pop
    /\ ret' = "false"
    /\ UNCHANGED <<puzzle, searchStr, oi, oj, phase, result>>
    /\ UNCHANGED notSnake

SnakeNext ==
    \/ LoopExit
    \/ LoopNextRow
    \/ LoopCall
    \/ LoopReturn
    \/ Enter
    \/ TryDir
    \/ AfterDir
    \/ Unwind


(***************************************************************************)
(* The contract of findStringInSnakingPuzzle, stated without the search    *)
(***************************************************************************)
Cells(p) == UNION {{<<i, j>> : j \in 0..(Len(p[i + 1]) - 1)} : i \in 0..(Len(p) - 1)}

Abs(x) == IF x < 0 THEN -x ELSE x

Adjacent(a, b) == Abs(a[1] - b[1]) + Abs(a[2] - b[2]) = 1

Range(f) == {f[x] : x \in DOMAIN f}

\* the self-avoiding paths of k cells that spell the first k characters of s
RECURSIVE SnakePaths(_, _, _)
SnakePaths(p, s, k) ==
    IF k = 0 THEN {<<>>}
    ELSE UNION {
        {Append(q, c) : c \in {c \in Cells(p) :
            /\ p[c[1] + 1][c[2] + 1] = s[k]
            /\ c \notin Range(q)
            /\ k = 1 \/ Adjacent(q[k - 1], c)}}
        : q \in SnakePaths(p, s, k - 1)}

TraceExists(p, s) == SnakePaths(p, s, Len(s)) # {}

\* the rows of the grid, and the columns that run through every row
FullRows(p) == Range(p)
MinRowLen(p) == CHOOSE n \in {Len(p[i]) : i \in 1..Len(p)} :
                    \A i \in 1..Len(p) : n <= Len(p[i])
FullColumns(p) ==
    IF p = <<>> THEN {}
    ELSE {[i \in 1..Len(p) |-> p[i][j]] : j \in 1..MinRowLen(p)}

Ragged(p) == \E a, b \in 1..Len(p) : Len(p[a]) # Len(p[b])

\* C1: for a non-empty target the call returns true exactly when a
\* self-avoiding 4-neighbour path of the grid spells the target; in the
\* example grid ANGULAR is found and FUNCTION is not
C1_SnakeContract ==
    (phase = "done" /\ searchStr # <<>>) =>
        /\ (result = "true") <=> TraceExists(puzzle, searchStr)
        /\ result \in {"true", "false"}
        /\ (puzzle = DocPuzzle /\ searchStr = <<"A","N","G","U","L","A","R">>)
               => result = "true"
        /\ (puzzle = DocPuzzle /\ searchStr = <<"F","U","N","C","T","I","O","N">>)
               => result = "false"

\* a word found along a path with turns in the example grid
C1_Witness ==
    /\ phase = "done"
    /\ puzzle = DocPuzzle
    /\ searchStr = <<"R","E","A","C","T">>
    /\ result = "true"

\* C2: the empty target is found in every grid, a grid of zero rows included
C2_EmptyTargetFound ==
    (phase = "done" /\ searchStr = <<>>) => result = "true"

\* C5: a target equal to a full row or a full column of the grid is found
C5_RowOrColumnFound ==
    (phase = "done" /\ searchStr \in FullRows(puzzle) \cup FullColumns(puzzle))
        => result = "true"

\* C6: the call never faults and ends with a boolean, for every grid (zero
\* rows, rows of unequal lengths) and every target
C6_TotalBoolean ==
    /\ [](phase # "fault")
    /\ <>(phase = "done" /\ result \in {"true", "false"})

\* the search stepped past the end of a shorter row of a ragged grid and went on
C6_Witness ==
    /\ phase = "call"
    /\ Ragged(puzzle)
    /\ stack # <<>>
    /\ Len(stack) > 1
    /\ Top.pc = "entry"
    /\ Top.i \in 0..(Len(puzzle) - 1)
    /\ Top.j >= Len(puzzle[Top.i + 1])

\* the cells of visited that hold true
MarkedCells ==
    UNION {{<<i, j>> : j \in {c \in DOMAIN visited[i] : visited[i][c]}} : i \in DOMAIN visited}

\* the calls of canFindStartedFrom under way that have matched their cell:
\* every frame but one that has not yet run its match test
MatchedDepth ==
    IF stack # <<>> /\ Top.pc = "entry" THEN Len(stack) - 1 ELSE Len(stack)

\* the cells of those calls, outermost first
StackCells == [k \in 1..MatchedDepth |-> <<stack[k].i, stack[k].j>>]

\* path is a self-avoiding 4-neighbour path of the grid that spells the first
\* Len(path) characters of s
IsSnakePath(p, s, path) ==
    /\ Len(path) <= Len(s)
    /\ \A k \in 1..Len(path) :
        /\ path[k] \in Cells(p)
        /\ p[path[k][1] + 1][path[k][2] + 1] = s[k]
    /\ \A k \in 1..(Len(path) - 1) : Adjacent(path[k], path[k + 1])
    /\ \A k, l \in 1..Len(path) : k # l => path[k] # path[l]

\* a call of canFindStartedFrom is about to run, or has just returned
AtCallBoundary ==
    /\ phase = "call"
    /\ \/ stack # <<>> /\ Top.pc = "entry"
       \/ ret # "none"

\* C12: at every call boundary of canFindStartedFrom the number of marked
\* cells equals index, and the marked cells are exactly the cells of the path
\* in progress: the cells of the calls under way, followed, while true is being
\* returned, by the cells of the calls that returned true
C12_MarksArePath ==
    AtCallBoundary =>
        /\ Cardinality(MarkedCells) = index
        /\ IsSnakePath(puzzle, searchStr, StackCells)
        /\ Range(StackCells) \subseteq MarkedCells
        /\ ret # "true" => (MatchedDepth = index /\ MarkedCells = Range(StackCells))
        /\ ret = "true" =>
            /\ index = Len(searchStr)
            /\ \E path \in SnakePaths(puzzle, searchStr, index) :
                /\ Range(path) = MarkedCells
                /\ \A k \in 1..MatchedDepth : path[k] = StackCells[k]

\* a call that had matched two cells under it has just returned false
C12_Witness ==
    /\ AtCallBoundary
    /\ ret = "false"
    /\ index >= 2
    /\ Len(stack) >= 2
    /\ Cardinality(MarkedCells) = index

MaxN == 3
MaxStack == 6

PermAlphabet == <<"a", "b", "c", "d", "e">>

\* the input strings: distinct characters, as the function assumes
PermInputs ==
    {s \in SeqUpTo({PermAlphabet[x] : x \in 1..MaxN}, MaxN) :
        \A a, b \in 1..Len(s) : a # b => s[a] # s[b]}

\* where the argument string lives
CharsAddr == 0

NextFree == Cardinality(DOMAIN heap)

\* [...chars] builds a new array
SpreadAddr(src, fresh) == fresh

\* arr.join('') builds a new string
JoinAlias(src, fresh) == src
JoinAddr(src, fresh) == fresh

\* let j = k % 2 === 0 ? i : 0
SwapIndexFlipped(k, i) == IF k % 2 = 1 THEN i ELSE 0
SwapIndex(k, i) == IF k % 2 = 0 THEN i ELSE 0

\* let tmp = arr[k - 1]; arr[k - 1] = arr[j]; arr[j] = tmp   (0-based k - 1, j)
Swapped(a, k, j) == [a EXCEPT ![k] = a[j + 1], ![j + 1] = a[k]]

PTop == pstack[Len(pstack)]
PPop == SubSeq(pstack, 1, Len(pstack) - 1)
PFrame(k) == [k |-> k, i |-> 0, pc |-> "entry"]
PSetTop(i, pc) == [pstack EXCEPT ![Len(pstack)] = [k |-> PTop.k, i |-> i, pc |-> pc]]

PermInit ==
    /\ chars \in PermInputs
    /\ heap = (CharsAddr :> chars)
    /\ arr = CharsAddr
    /\ output = <<>>
    /\ pstack = <<>>
    /\ yi = 0
    /\ yielded = <<>>
    /\ pphase = "start"
    /\ SnakeIdle /\ DominoIdle /\ UrlIdle /\ WrapIdle /\ StockIdle

\* generate(chars.length, [...chars])
PermStart ==
    /\ pphase = "start"
    /\ LET a == SpreadAddr(CharsAddr, NextFree) IN
        /\ arr' = a
        /\ heap' = (a :> heap[CharsAddr]) @@ heap
    /\ pstack' = <<PFrame(Len(heap[CharsAddr]))>>
    /\ pphase' = "generate"
    /\ UNCHANGED <<chars, output, yi, yielded>>
    /\ UNCHANGED notPerm

\* if (k === 1) output.push(arr.join('')), and the return
GenEmit ==
    /\ pphase = "generate"
    /\ pstack # <<>>
    /\ PTop.pc = "entry"
    /\ PTop.k = 1
    /\ LET a == JoinAddr(arr, NextFree) IN
        /\ heap' = (a :> heap[arr]) @@ heap
        /\ output' = Append(output, a)
    /\ pstack' = PPop
    /\ UNCHANGED <<chars, arr, yi, yielded, pphase>>
    /\ UNCHANGED notPerm

\* a call of generate(k - 1, arr) from a frame that goes on at pc `after`;
\* a call beyond the engine's stack throws RangeError
GenCall(after) ==
    IF Len(pstack) >= MaxStack
    THEN /\ pphase' = "fault"
         /\ UNCHANGED pstack
    ELSE /\ pstack' = Append(PSetTop(PTop.i, after), PFrame(PTop.k - 1))
         /\ UNCHANGED pphase

\* else { generate(k - 1, arr); ... }: the first call
GenFirst ==
    /\ pphase = "generate"
    /\ pstack # <<>>
    /\ PTop.pc = "entry"
    /\ PTop.k # 1
    /\ GenCall("loop")
    /\ UNCHANGED <<chars, heap, arr, output, yi, yielded>>
    /\ UNCHANGED notPerm

\* the loop test i < k - 1 holds: the swap, then generate(k - 1, arr)
GenSwap ==
    /\ pphase = "generate"
    /\ pstack # <<>>
    /\ PTop.pc = "loop"
    /\ PTop.i < PTop.k - 1
    /\ heap' = [heap EXCEPT ![arr] = Swapped(@, PTop.k, SwapIndex(PTop.k, PTop.i))]
    /\ GenCall("incr")
    /\ UNCHANGED <<chars, arr, output, yi, yielded>>
    /\ UNCHANGED notPerm

\* i++
GenIncr ==
    /\ pphase = "generate"
    /\ pstack # <<>>
    /\ PTop.pc = "incr"
    /\ pstack' = PSetTop(PTop.i + 1, "loop")
    /\ UNCHANGED <<chars, heap, arr, output, yi, yielded, pphase>>
    /\ UNCHANGED notPerm

\* the loop test i < k - 1 fails: generate returns
GenReturn ==
    /\ pphase = "generate"
    /\ pstack # <<>>
    /\ PTop.pc = "loop"
    /\ PTop.i >= PTop.k - 1
    /\ pstack' = PPop
    /\ UNCHANGED <<chars, heap, arr, output, yi, yielded, pphase>>
    /\ UNCHANGED notPerm

\* the outermost generate returned: for (let i = 0; ...)
YieldStart ==
    /\ pphase = "generate"
    /\ pstack = <<>>
    /\ pphase' = "yield"
    /\ yi' = 0
    /\ UNCHANGED <<chars, heap, arr, output, pstack, yielded>>
    /\ UNCHANGED notPerm

\* yield output[i]
Yield ==
    /\ pphase = "yield"
    /\ yi < Len(output)
    /\ yielded' = Append(yielded, output[yi + 1])
    /\ yi' = yi + 1
    /\ UNCHANGED <<chars, heap, arr, output, pstack, pphase>>
    /\ UNCHANGED notPerm

\* i < output.length fails: the generator is exhausted
YieldEnd ==
    /\ pphase = "yield"
    /\ yi >= Len(output)
    /\ pphase' = "done"
    /\ UNCHANGED <<chars, heap, arr, output, pstack, yi, yielded>>
    /\ UNCHANGED notPerm

PermNext ==
    \/ PermStart
    \/ GenEmit
    \/ GenFirst
    \/ GenSwap
    \/ GenIncr
    \/ GenReturn
    \/ YieldStart
    \/ Yield
    \/ YieldEnd

\* the strings the consumer received
YieldedStrings == [x \in 1..Len(yielded) |-> heap[yielded[x]]]

RECURSIVE Factorial(_)
Factorial(n) == IF n <= 1 THEN 1 ELSE n * Factorial(n - 1)

Count(s, c) == Cardinality({x \in 1..Len(s) : s[x] = c})

IsRearrangement(s, t) ==
    /\ Len(s) = Len(t)
    /\ \A c \in Range(s) \cup Range(t) : Count(s, c) = Count(t, c)

\* C3: for n >= 1 distinct characters the generator yields n! strings, each a
\* rearrangement of the input, no two equal ('ab' gives exactly 'ab' and 'ba')
C3_AllPermutationsOnce ==
    (Len(chars) >= 1 /\ pphase \in {"done", "fault"}) =>
        /\ pphase = "done"
        /\ Len(yielded) = Factorial(Len(chars))
        /\ \A x \in 1..Len(yielded) : IsRearrangement(YieldedStrings[x], chars)
        /\ \A x, y \in 1..Len(yielded) : x # y => YieldedStrings[x] # YieldedStrings[y]
        /\ chars = <<"a", "b">> => Range(YieldedStrings) = {<<"a", "b">>, <<"b", "a">>}

\* the six permutations of a three-character input have all been yielded
C3_Witness ==
    /\ pphase = "done"
    /\ Len(chars) = 3
    /\ Len(yielded) = 6

\* C4: for the empty input the generator ends and yields exactly one result,
\* the empty sequence
C4_EmptyInputYieldsEmpty ==
    (chars = <<>> /\ pphase \in {"done", "fault"}) =>
        /\ pphase = "done"
        /\ YieldedStrings = << <<>> >>

\* C7: no step changes a string already pushed to output or handed to the
\* consumer, nor the input string
C7_SnapshotsKept ==
    [][/\ \A x \in 1..Len(output) : heap'[output[x]] = heap[output[x]]
       /\ \A x \in 1..Len(yielded) : heap'[yielded[x]] = heap[yielded[x]]
       /\ heap'[CharsAddr] = heap[CharsAddr]
       /\ heap[CharsAddr] = chars
       /\ chars' = chars]_vars

\* the working array has been swapped away from the first string emitted
C7_Witness ==
    /\ pphase = "generate"
    /\ Len(output) >= 2
    /\ heap[arr] # heap[output[1]]
    /\ heap[output[1]] = chars

\* the string emitted last
LastEmitted == heap[output[Len(output)]]

\* s with the characters at the 0-based positions a and b exchanged
Exchanged(s, a, b) == [s EXCEPT ![a + 1] = s[b + 1], ![b + 1] = s[a + 1]]

\* t is s with two positions that hold different characters exchanged
DiffersByOneSwap(s, t) ==
    \E a, b \in 0..(Len(s) - 1) : a < b /\ s[a + 1] # s[b + 1] /\ t = Exchanged(s, a, b)

\* a step that changes the working array / that pushes a string to output
ExchangeStep == pphase = "generate" /\ heap'[arr'] # heap[arr]
EmissionStep == Len(output') = Len(output) + 1

MaxTiles == 3
MaxPip == 2

Tiles == {<<x, y>> : x \in 0..MaxPip, y \in 0..MaxPip}

\* the tile sets of the doc comment's examples, with the answers it gives
DocDominoes ==
    { << <<0,1>>, <<1,1>> >>,
      << <<1,1>>, <<2,2>>, <<1,5>>, <<5,6>>, <<6,3>> >>,
      << <<1,3>>, <<2,3>>, <<1,4>>, <<2,4>>, <<1,5>>, <<2,5>> >> }

\* the test of copy.findIndex
Touches(d, pair) ==
    \/ d[1] = pair[1]
    \/ d[1] = pair[2]
    \/ d[2] = pair[1]
    \/ d[2] = pair[2]

\* copy.findIndex(...): the first index (0-based), or -1
FindIndex(c, d) ==
    LET hits == {x \in 1..Len(c) : Touches(d, c[x])} IN
    IF hits = {} THEN -1
    ELSE (CHOOSE x \in hits : \A y \in hits : x <= y) - 1

\* copy.splice(pairIndex, 1): the array without that element
Spliced(c, k) == SubSeq(c, 1, k) \o SubSeq(c, k + 2, Len(c))

\* the if / else if chain that joins pair to domino
Joined(d, pair) ==
    IF d[1] = pair[1] THEN <<d[2], pair[2]>>
    ELSE IF d[1] = pair[2] THEN <<d[2], pair[1]>>
    ELSE IF d[2] = pair[1] THEN <<d[1], pair[2]>>
    ELSE <<d[1], pair[1]>>

DominoInit ==
    /\ dominoes \in SeqUpTo(Tiles, MaxTiles) \cup DocDominoes
    /\ copy = <<>>
    /\ domino = <<>>
    /\ dphase = "start"
    /\ dresult = "none"
    /\ SnakeIdle /\ PermIdle /\ UrlIdle /\ WrapIdle /\ StockIdle

\* let copy = [...dominoes]; let domino = copy.shift()  (undefined, here the
\* empty tuple, when there is no tile)
DomStart ==
    /\ dphase = "start"
    /\ copy' = IF dominoes = <<>> THEN <<>> ELSE Tail(dominoes)
    /\ domino' = IF dominoes = <<>> THEN <<>> ELSE Head(dominoes)
    /\ dphase' = "loop"
    /\ UNCHANGED <<dominoes, dresult>>
    /\ UNCHANGED notDomino

\* one pass of the while loop that finds a tile and joins it
DomJoin ==
    /\ dphase = "loop"
    /\ Len(copy) > 0
    /\ FindIndex(copy, domino) # -1
    /\ LET pairIndex == FindIndex(copy, domino) IN
        /\ domino' = Joined(domino, copy[pairIndex + 1])
        /\ copy' = Spliced(copy, pairIndex)
    /\ UNCHANGED <<dominoes, dphase, dresult>>
    /\ UNCHANGED notDomino

\* if (pairIndex === -1) break
DomBreak ==
    /\ dphase = "loop"
    /\ Len(copy) > 0
    /\ FindIndex(copy, domino) = -1
    /\ dphase' = "return"
    /\ UNCHANGED <<dominoes, copy, domino, dresult>>
    /\ UNCHANGED notDomino

\* the loop test copy.length > 0 fails
DomLoopEnd ==
    /\ dphase = "loop"
    /\ Len(copy) = 0
    /\ dphase' = "return"
    /\ UNCHANGED <<dominoes, copy, domino, dresult>>
    /\ UNCHANGED notDomino

\* return copy.length === 0
DomReturn ==
    /\ dphase = "return"
    /\ dresult' = IF Len(copy) = 0 THEN "true" ELSE "false"
    /\ dphase' = "done"
    /\ UNCHANGED <<dominoes, copy, domino>>
    /\ UNCHANGED notDomino

DominoNext ==
    \/ DomStart
    \/ DomJoin
    \/ DomBreak
    \/ DomLoopEnd
    \/ DomReturn

\* the tiles with indices in rest can be laid, one after another and either
\* way round, to the right of a half that shows `open`
RECURSIVE RowFrom(_, _, _)
RowFrom(t, rest, open) ==
    \/ rest = {}
    \/ \E x \in rest :
        \/ t[x][1] = open /\ RowFrom(t, rest \ {x}, t[x][2])
        \/ t[x][2] = open /\ RowFrom(t, rest \ {x}, t[x][1])

\* all the tiles can be placed in one row
CanMakeRow(t) ==
    \/ t = <<>>
    \/ \E x \in 1..Len(t) :
        \/ RowFrom(t, (1..Len(t)) \ {x}, t[x][2])
        \/ RowFrom(t, (1..Len(t)) \ {x}, t[x][1])

\* C8: canDominoesMakeRow returns true exactly when the tiles can all be
\* placed in one row, in some order, each tile either way round
C8_DominoContract ==
    dphase = "done" => ((dresult = "true") <=> CanMakeRow(dominoes))

(***************************************************************************)
(* UrlShortener                                                            *)
(***************************************************************************)
MaxUrlLen == 3

urlAllowedChars ==
    <<"A","B","C","D","E","F","G","H","I","J","K","L","M","N","O","P","Q",
      "R","S","T","U","V","W","X","Y","Z","a","b","c","d","e","f","g","h",
      "i","j","k","l","m","n","o","p","q","r","s","t","u","v","w","x","y",
      "z","0","1","2","3","4","5","6","7","8","9","-","_",".","~","!","*",
      "'","(",")",";",":","@","&","=","+","$",",","/","?","#","[","]">>

UrlSample == {"A", "B", "h", "]"}

DocUrl ==
    <<"h","t","t","p","s",":","/","/","e","n",".","w","i","k","i","p","e",
      "d","i","a",".","o","r","g","/","w","i","k","i","/","U","R","L","_",
      "s","h","o","r","t","e","n","i","n","g">>

\* this.urlAllowedChars.indexOf(c): 0-based, -1 when absent
IndexOf(s, c) ==
    LET hits == {x \in 1..Len(s) : s[x] = c} IN
    IF hits = {} THEN -1
    ELSE (CHOOSE x \in hits : \A y \in hits : x <= y) - 1

\* bitwise or / and of two non-negative integers
RECURSIVE BitOr(_, _)
BitOr(a, b) ==
    IF a = 0 THEN b
    ELSE IF b = 0 THEN a
    ELSE (IF a % 2 = 1 \/ b % 2 = 1 THEN 1 ELSE 0) + 2 * BitOr(a \div 2, b \div 2)

RECURSIVE BitAnd(_, _)
BitAnd(a, b) ==
    IF a = 0 \/ b = 0 THEN 0
    ELSE (IF a % 2 = 1 /\ b % 2 = 1 THEN 1 ELSE 0) + 2 * BitAnd(a \div 2, b \div 2)

\* x << 8 and x >> 8 on non-negative 32-bit integers: the shift drops the
\* top eight bits (2^24 = 16777216)
ShiftLeft8(x) == (x % 16777216) * 256
ShiftRight8(x) == x \div 256

\* code[0] << 8 | code[1]
PackPair(c) == BitOr(ShiftLeft8(c[1]), c[2])

\* String.fromCharCode(n): the UTF-16 code unit n mod 2^16; charCodeAt reads it back
FromCharCode(n) == n % 65536

\* String.fromCharCode applied to the one-element array that codes.push(code)
\* leaves in codes: the array converts to the number it holds
ArrayToNumber(a) == a[1]

\* what result.join('') makes of this.urlAllowedChars[k]: the character, or
\* nothing for an undefined element
AllowedAt(k) == IF k \in 0..(Len(urlAllowedChars) - 1)
                THEN <<urlAllowedChars[k + 1]>> ELSE <<>>

\* the test of decode: two characters were packed in this code unit
IsPair(unit) == unit > 255

UrlInit ==
    /\ url \in SeqUpTo(UrlSample, MaxUrlLen) \cup {DocUrl}
    /\ codes = <<>>
    /\ code = <<>>
    /\ ui = 0
    /\ shortLink = <<>>
    /\ di = 0
    /\ decoded = <<>>
    /\ uphase = "encode"
    /\ SnakeIdle /\ PermIdle /\ DominoIdle /\ WrapIdle /\ StockIdle

\* one pass of encode's loop
EncodeChar ==
    /\ uphase = "encode"
    /\ ui < Len(url)
    /\ LET c == Append(code, IndexOf(urlAllowedChars, url[ui + 1])) IN
        IF Len(c) = 2
        THEN codes' = Append(codes, PackPair(c)) /\ code' = <<>>
        ELSE code' = c /\ UNCHANGED codes
    /\ ui' = ui + 1
    /\ UNCHANGED <<url, shortLink, di, decoded, uphase>>
    /\ UNCHANGED notUrl

\* after the loop: if (code.length === 1) codes.push(code);
\* return String.fromCharCode(...codes)
EncodeReturn ==
    /\ uphase = "encode"
    /\ ui >= Len(url)
    /\ LET all == IF Len(code) = 1 THEN Append(codes, ArrayToNumber(code)) ELSE codes IN
        /\ codes' = all
        /\ shortLink' = [x \in 1..Len(all) |-> FromCharCode(all[x])]
    /\ uphase' = "decode"
    /\ UNCHANGED <<url, code, ui, di, decoded>>
    /\ UNCHANGED notUrl

\* one pass of decode's loop
DecodeChar ==
    /\ uphase = "decode"
    /\ di < Len(shortLink)
    /\ LET unit == shortLink[di + 1] IN
        IF IsPair(unit)
        THEN decoded' = decoded \o AllowedAt(ShiftRight8(unit))
                                \o AllowedAt(BitAnd(255, unit))
        ELSE decoded' = decoded \o AllowedAt(unit)
    /\ di' = di + 1
    /\ UNCHANGED <<url, codes, code, ui, shortLink, uphase>>
    /\ UNCHANGED notUrl

\* return result.join('')
DecodeReturn ==
    /\ uphase = "decode"
    /\ di >= Len(shortLink)
    /\ uphase' = "done"
    /\ UNCHANGED <<url, codes, code, ui, shortLink, di, decoded>>
    /\ UNCHANGED notUrl

UrlNext ==
    \/ EncodeChar
    \/ EncodeReturn
    \/ DecodeChar
    \/ DecodeReturn

\* C9: decode(encode(url)) = url for every url of allowed characters
C9_RoundTrip ==
    (uphase = "done" /\ \A x \in 1..Len(url) : IndexOf(urlAllowedChars, url[x]) # -1)
        => decoded = url

(***************************************************************************)
(* wrapText                                                                *)
(***************************************************************************)
MaxWords == 3
MaxWordLen == 3
MaxColumns == 4

WrapLetters == <<"a", "b", "c", "d", "e">>

\* the text whose k-th word is lens[k] copies of the k-th letter, the words
\* separated by single spaces
RECURSIVE TextOf(_, _)
TextOf(lens, k) ==
    IF k > Len(lens) THEN <<>>
    ELSE (IF k = 1 THEN <<>> ELSE <<" ">>)
         \o [x \in 1..lens[k] |-> WrapLetters[k]]
         \o TextOf(lens, k + 1)

WrapTexts == {TextOf(lens, 1) : lens \in SeqUpTo(1..MaxWordLen, MaxWords)}

DocText ==
    <<"T","h","e"," ","S","t","r","i","n","g"," ","g","l","o","b","a","l",
      " ","o","b","j","e","c","t"," ","i","s"," ","a"," ","c","o","n","s",
      "t","r","u","c","t","o","r"," ","f","o","r"," ","s","t","r","i","n",
      "g","s",","," ","o","r"," ","a"," ","s","e","q","u","e","n","c","e",
      " ","o","f"," ","c","h","a","r","a","c","t","e","r","s",".">>

\* text.charAt(i): the empty string beyond the end
CharAtOrEmpty(s, i) == IF i \in 0..(Len(s) - 1) THEN s[i + 1] ELSE ""

\* the last value of i in for (let i = 1; i <= columns; i++)
LastScannedOffByOne(cols) == cols + 1
LastScanned(cols) == cols

\* the for loop from i on: wordBoundary becomes the last i with a space at i
RECURSIVE ScanBoundary(_, _, _, _)
ScanBoundary(s, cols, i, wb) ==
    IF i > LastScanned(cols) THEN wb
    ELSE ScanBoundary(s, cols, i + 1, IF CharAtOrEmpty(s, i) = " " THEN i ELSE wb)

\* let wordBoundary = text.length; for (...) { ... }
WordBoundary(s, cols) == ScanBoundary(s, cols, 1, Len(s))

\* text.substring(0, n) for 0 <= n
Substring0(s, n) == SubSeq(s, 1, IF n < Len(s) THEN n ELSE Len(s))

\* text.substr(n) for n >= 0
Substr(s, n) == SubSeq(s, n + 1, Len(s))

WrapInit ==
    /\ \/ text0 \in WrapTexts /\ columns \in 1..MaxColumns
       \/ text0 = DocText /\ columns \in {12, 26}
    /\ text = text0
    /\ lines = <<>>
    /\ wphase = "loop"
    /\ SnakeIdle /\ PermIdle /\ DominoIdle /\ UrlIdle /\ StockIdle

\* one pass of while (text.length > columns)
WrapLine ==
    /\ wphase = "loop"
    /\ Len(text) > columns
    /\ LET wordBoundary == WordBoundary(text, columns) IN
        /\ lines' = Append(lines, Substring0(text, wordBoundary))
        /\ text' = Substr(text, wordBoundary + 1)
    /\ UNCHANGED <<text0, columns, wphase>>
    /\ UNCHANGED notWrap

\* the loop test fails: yield text
WrapLast ==
    /\ wphase = "loop"
    /\ Len(text) <= columns
    /\ lines' = Append(lines, text)
    /\ wphase' = "done"
    /\ UNCHANGED <<text0, text, columns>>
    /\ UNCHANGED notWrap

WrapNext ==
    \/ WrapLine
    \/ WrapLast

\* the lines put together again with one space at every line break
RECURSIVE JoinWithSpaces(_)
JoinWithSpaces(ls) ==
    IF Len(ls) = 0 THEN <<>>
    ELSE IF Len(ls) = 1 THEN ls[1]
    ELSE ls[1] \o <<" ">> \o JoinWithSpaces(Tail(ls))

\* no word of s is longer than cols: every cols + 1 consecutive characters
\* hold a space
NoLongWord(s, cols) ==
    \A a \in 1..(Len(s) - cols) : \E b \in a..(a + cols) : s[b] = " "

\* no line is longer than columns, and every line break replaces one space
WrappedWell ==
    /\ \A x \in 1..Len(lines) : Len(lines[x]) <= columns
    /\ JoinWithSpaces(lines) = text0

\* C10 as stated: for every text of words separated by single spaces and
\* every columns >= 1 no line is longer than columns and lines break at
\* spaces only
C10_WrapAnyText ==
    wphase = "done" => WrappedWell

\* C10 as amended: the same for every text none of whose words is longer than
\* columns characters
C10_WrapShortWords ==
    (wphase = "done" /\ NoLongWord(text0, columns)) => WrappedWell

\* the doc comment's second example: eight lines of at most 12 characters
C10_Witness ==
    /\ wphase = "done"
    /\ text0 = DocText
    /\ columns = 12
    /\ NoLongWord(text0, columns)
    /\ Len(lines) = 8
    /\ lines[3] = <<"o","b","j","e","c","t"," ","i","s"," ","a">>

(***************************************************************************)
(* getMostProfitFromStockQuotes                                            *)
(***************************************************************************)
MaxDays == 4
MaxQuote == 3

\* the quote sequences of the doc comment's examples
DocQuotes == { <<1, 2, 3, 4, 5, 6>>, <<6, 5, 4, 3, 2, 1>>, <<1, 6, 5, 10, 8, 7>> }

\* the test of the inner loop: j >= 0 && quotes[j] <= quotes[i]
InnerGoesOn(q, i, j) == j >= 0 /\ q[j + 1] <= q[i + 1]

\* the body of the inner loop: values[j] = 0; values[i] += quotes[i] - quotes[j]
InnerBodyNoClear(v, q, i, j) == [v EXCEPT ![i + 1] = @ + (q[i + 1] - q[j + 1])]
InnerBody(v, q, i, j) ==
    [v EXCEPT ![j + 1] = 0, ![i + 1] = @ + (q[i + 1] - q[j + 1])]

\* values.reduce((sum, v) => sum + v, 0)
RECURSIVE SumOf(_)
SumOf(v) == IF v = <<>> THEN 0 ELSE Head(v) + SumOf(Tail(v))

StockInit ==
    /\ quotes \in SeqUpTo(0..MaxQuote, MaxDays) \cup DocQuotes
    /\ values = <<>>
    /\ si = 0
    /\ sj = 0
    /\ sphase = "outer"
    /\ sresult = 0
    /\ SnakeIdle /\ PermIdle /\ DominoIdle /\ UrlIdle /\ WrapIdle

\* the outer loop test holds: values[i] = 0; let j = i - 1
StockDay ==
    /\ sphase = "outer"
    /\ si < Len(quotes)
    /\ values' = Append(values, 0)
    /\ sj' = si - 1
    /\ sphase' = "inner"
    /\ UNCHANGED <<quotes, si, sresult>>
    /\ UNCHANGED notStock

\* one pass of the inner loop, and j--
StockEarlierDay ==
    /\ sphase = "inner"
    /\ InnerGoesOn(quotes, si, sj)
    /\ values' = InnerBody(values, quotes, si, sj)
    /\ sj' = sj - 1
    /\ UNCHANGED <<quotes, si, sphase, sresult>>
    /\ UNCHANGED notStock

\* the inner loop test fails: i++
StockNextDay ==
    /\ sphase = "inner"
    /\ ~InnerGoesOn(quotes, si, sj)
    /\ si' = si + 1
    /\ sphase' = "outer"
    /\ UNCHANGED <<quotes, values, sj, sresult>>
    /\ UNCHANGED notStock

\* the outer loop test fails: return the sum of values
StockReturn ==
    /\ sphase = "outer"
    /\ si >= Len(quotes)
    /\ sresult' = SumOf(values)
    /\ sphase' = "done"
    /\ UNCHANGED <<quotes, values, si, sj>>
    /\ UNCHANGED notStock

StockNext ==
    \/ StockDay
    \/ StockEarlierDay
    \/ StockNextDay
    \/ StockReturn

\* the highest quote from day d (1-based) onward
HighestFrom(q, d) == CHOOSE m \in {q[x] : x \in d..Len(q)} :
                        \A x \in d..Len(q) : q[x] <= m

\* the sum over the days d.. of the highest quote from that day onward minus
\* that day's quote
RECURSIVE GainFrom(_, _)
GainFrom(q, d) ==
    IF d > Len(q) THEN 0 ELSE (HighestFrom(q, d) - q[d]) + GainFrom(q, d + 1)

Max2(a, b) == IF a >= b THEN a ELSE b

RECURSIVE MaxOver(_)
MaxOver(S) ==
    IF Cardinality(S) = 1 THEN CHOOSE x \in S : TRUE
    ELSE LET x == CHOOSE y \in S : TRUE IN Max2(x, MaxOver(S \ {x}))

\* the most money that can be made from day d (1-based) on with `held` units
\* in hand: each day do nothing, buy one unit, or sell any number of units held
RECURSIVE BestFrom(_, _, _)
BestFrom(q, d, held) ==
    IF d > Len(q) THEN 0
    ELSE MaxOver({BestFrom(q, d + 1, held), BestFrom(q, d + 1, held + 1) - q[d]}
                 \cup {k * q[d] + BestFrom(q, d + 1, held - k) : k \in 1..held})

NonIncreasing(q) == \A x \in 1..(Len(q) - 1) : q[x] >= q[x + 1]

\* C11: the value returned is the most profit of the buy-one / sell-any game,
\* which is the sum over the days of the highest quote from that day onward
\* minus that day's quote, and 0 for a non-increasing sequence
C11_MostProfit ==
    sphase = "done" =>
        /\ sresult = GainFrom(quotes, 1)
        /\ sresult = BestFrom(quotes, 1, 0)
        /\ NonIncreasing(quotes) => sresult = 0
        /\ quotes = <<1, 6, 5, 10, 8, 7>> => sresult = 18

\* a result whose earlier entries of values were cleared by a later, higher day
\* behind a lower one
C11_Witness ==
    /\ sphase = "done"
    /\ Len(quotes) = 4
    /\ quotes[1] < quotes[2] /\ quotes[3] < quotes[2] /\ quotes[2] < quotes[4]
    /\ sresult > 0
    /\ values = <<0, 0, 0, sresult>>

(***************************************************************************)
(* Specifications                                                          *)
(***************************************************************************)
SnakeSpec == SnakeInit /\ [][SnakeNext]_vars

\* weak fairness of the one thread of control: a call that can take a step does
SnakeFair == SnakeSpec /\ WF_vars(SnakeNext)

PermSpec == PermInit /\ [][PermNext]_vars

DominoSpec == DominoInit /\ [][DominoNext]_vars

UrlSpec == UrlInit /\ [][UrlNext]_vars

WrapSpec == WrapInit /\ [][WrapNext]_vars

StockSpec == StockInit /\ [][StockNext]_vars

Spec == SnakeSpec

====
